---- MODULE Spec2Model ----
(***************************************************************************)
(* Model of rag_chatbot: the multi-source quote aggregation layer          *)
(* (src/rag_chatbot/src/data_fetcher.py), its configuration               *)
(* (src/rag_chatbot/config.py) and the document chunking pipeline          *)
(* (src/rag_chatbot/src/document_processor.py).                            *)
(*                                                                         *)
(* The library is stateless between calls: a behaviour is one call of a    *)
(* public method, from the idle state, with arguments and provider         *)
(* responses drawn from bounded sets.  Each method is an operator giving   *)
(* the set of its possible runs; a run records whether the call returned   *)
(* or raised, the value, and the log of the adapter calls it made.         *)
(*                                                                         *)
(* Conventions:                                                            *)
(*   - Python None is the empty tuple <<>>, a value v is <<v>>;            *)
(*   - a str made of a ticker is a tuple of one-character strings;         *)
(*   - an f-string is a record: its literal template, and the values       *)
(*     interpolated into it, by type;                                      *)
(*   - a dict is a function from its keys.                                 *)
(***************************************************************************)
EXTENDS Integers, Sequences, FiniteSets, TLC

VARIABLES env, pc, op, arg, result

vars == <<env, pc, op, arg, result>>

(***************************** bounds *************************************)

\* Most fields a provider's info payload reports (the others are absent).
MaxReported == 2
\* Most items in a provider's news payload beyond the embedding limit.
MaxNewsExtra == 1
\* Most entries in a directory listing.
MaxFiles == 2
\* Most chunks the text splitter returns for one text.
MaxChunks == 2

(*************************** program constants ****************************)

\* news[:10] in get_company_news.
NewsLimit == 10
\* news[:5] in format_for_context.
ContextNewsLimit == 5
\* description[:400] in format_for_context.
OverviewLimit == 400
\* days_back=7 in format_for_context's call of get_company_news.
ContextNewsDays == 7

(***************************** values *************************************)

None == <<>>

Some(v) == <<v>>

\* Python truthiness of an optional number: None and 0 are falsy.
Truthy(x) == x /= None /\ x[1] /= 0

Range(s) == {s[i] : i \in DOMAIN s}

\* payload.get(key) on a provider's JSON payload, whose values are numbers
\* or strings: the value, or None when the key is missing.
Get(d, k) == IF k \in DOMAIN d THEN Some(d[k]) ELSE None

\* record.get(key) on a record built by an adapter, whose values are
\* already optional: the value, or None when the key is missing.
QGet(d, k) == IF k \in DOMAIN d THEN d[k] ELSE None

\* Numbers a provider reports: a legitimate zero and a positive value.
Vals == {0, 5}

\* Ticker symbols drawn: lower case, mixed case, upper case.
Tickers == {<<"a", "b">>, <<"A", "b">>, <<"A", "B">>}

\* str.upper(), character by character.
UpperChar(c) == IF c = "a" THEN "A" ELSE IF c = "b" THEN "B" ELSE c

Upper(s) == [i \in DOMAIN s |-> UpperChar(s[i])]

\* An f-string: template, interpolated tickers, interpolated exception texts.
FString(fmt, targs, eargs) == [fmt |-> fmt, targs |-> targs, eargs |-> eargs]

\* One run of a method: it returned ret, or raised exc; calls is the log of
\* the methods it called, in order, each with how that call ended.  A returned
\* dict is ret itself; a returned list is ret.list and a returned str ret.text.
Returned(ret, calls) == [status |-> "returned", ret |-> ret, exc |-> "", calls |-> calls]

\* The value slot of a run that raised: nothing was returned.
NoValue == [novalue |-> TRUE]

Raised(exc, calls) == [status |-> "raised", ret |-> NoValue, exc |-> exc, calls |-> calls]

Call(fn, args, run) ==
    [fn |-> fn, args |-> args, status |-> run.status, ret |-> run.ret, exc |-> run.exc]

\* The log entry of one outbound request: it answered, or ended in exc.
Request(fn, exc) ==
    [fn |-> fn, args |-> NoValue, status |-> IF exc = "" THEN "returned" ELSE "raised",
     ret |-> NoValue, exc |-> exc]

\* The entries of a log that are calls of fn, in order.
CallsTo(log, fn) == SelectSeq(log, LAMBDA c : c.fn = fn)

IsError(rec) == "error" \in DOMAIN rec

(************************** configuration *********************************)

\* Environment variables config.py reads the market-data credentials from
\* (lines 7-8); env is the set of those that are set.
EnvNames == {"FINHUB_API_KEY", "FMP_API_KEY"}

\* os.getenv(name): the key, or None when the variable is not set.
getenv(e, name) == IF name \in e THEN Some("key") ELSE None

\* class Config: the credential attributes it defines (config.py:5-8).
Config(e) ==
    [OPENAI_API_KEY |-> getenv(e, "OPENAI_API_KEY"),
     PINECONE_API_KEY |-> getenv(e, "PINECONE_KEY"),
     FINHUB_API_KEY |-> getenv(e, "FINHUB_API_KEY"),
     FMP_API_KEY |-> getenv(e, "FMP_API_KEY")]

\* Names bound at module level in data_fetcher.py: its imports (lines 4-10,
\* the import of Config is commented out on line 9) and its class.
ModuleGlobals ==
    {"yf", "requests", "datetime", "timedelta", "Dict", "List", "Optional",
     "pd", "time", "FinancialDataFetcher"}

\* Evaluation of the expression Config.<attr> inside data_fetcher.py:
\* NameError when the name Config is not bound in the module,
\* AttributeError when the class has no such attribute, else the value.
ConfigAttr(e, attr) ==
    IF "Config" \notin ModuleGlobals
    THEN [exc |-> "NameError", val |-> None]
    ELSE IF attr \notin DOMAIN Config(e)
         THEN [exc |-> "AttributeError", val |-> None]
         ELSE [exc |-> "", val |-> Config(e)[attr]]

(************************ provider responses ******************************)

\* Exceptions a provider request can end in: no connection, the timeout of
\* 10 s, a non-2xx status (raise_for_status), a body that is not JSON.
NetworkErrors == {"ConnectionError", "Timeout", "HTTPError", "JSONDecodeError"}

\* What Yahoo Finance reports for a ticker: keys of the info payload, and
\* "Close", the last close of the 1-minute history (absent when the history
\* frame is empty).  A payload reports at most MaxReported of them.
ReportedKeys ==
    {"Close", "currentPrice", "dayHigh", "dayLow", "volume", "marketCap", "trailingPE",
     "fiftyTwoWeekHigh", "fiftyTwoWeekLow"}

YahooPayloads ==
    UNION {[ks -> Vals] : ks \in {k \in SUBSET ReportedKeys : Cardinality(k) <= MaxReported}}

\* What Yahoo Finance answers to one Ticker(...).info / .history(...) pair:
\* an exception, or the info payload and the last close of the history
\* (None when the history frame is empty).
YahooResponses ==
    {[exc |-> "ConnectionError", at |-> a, info |-> << >>, close |-> None] :
        a \in {"stock.info", "stock.history"}}
    \cup {[exc |-> "", at |-> "", info |-> [k \in DOMAIN p \ {"Close"} |-> p[k]],
            close |-> Get(p, "Close")] : p \in YahooPayloads}

\* YahooRequests with a request that failed made a second time.
YahooRequestsRetried(resp) ==
    IF resp.at = "stock.info"
    THEN <<Request("stock.info", resp.exc), Request("stock.info", resp.exc)>>
    ELSE IF resp.at = "stock.history"
    THEN <<Request("stock.info", ""), Request("stock.history", resp.exc),
           Request("stock.history", resp.exc)>>
    ELSE <<Request("stock.info", ""), Request("stock.history", "")>>

\* The requests get_stock_quote makes: stock.info (line 39), then
\* stock.history (line 42) unless the first one raised.
YahooRequests(resp) ==
    IF resp.at = "stock.info" THEN <<Request("stock.info", resp.exc)>>
    ELSE <<Request("stock.info", ""), Request("stock.history", resp.exc)>>

\* FinancialDataFetcher.get_stock_quote (lines 37-67), given the response.
get_stock_quote(ticker, resp) ==
    IF resp.exc /= ""
    THEN Returned([error |-> FString("Failed to fetch data for {}: {}", <<ticker>>, <<resp.exc>>)],
                  YahooRequests(resp))
    ELSE Returned(
           [ticker |-> Upper(ticker),
            current_price |-> IF resp.close /= None THEN resp.close
                              ELSE Get(resp.info, "currentPrice"),
            previous_close |-> Get(resp.info, "previousClose"),
            open |-> Get(resp.info, "open"),
            day_high |-> Get(resp.info, "dayHigh"),
            day_low |-> Get(resp.info, "dayLow"),
            volume |-> Get(resp.info, "volume"),
            avg_volume |-> Get(resp.info, "averageVolume"),
            market_cap |-> Get(resp.info, "marketCap"),
            pe_ratio |-> Get(resp.info, "trailingPE"),
            forward_pe |-> Get(resp.info, "forwardPE"),
            dividend_yield |-> Get(resp.info, "dividendYield"),
            beta |-> Get(resp.info, "beta"),
            timestamp |-> "now",
            source |-> "Yahoo Finance"]
           @@ ("52_week_high" :> Get(resp.info, "fiftyTwoWeekHigh"))
           @@ ("52_week_low" :> Get(resp.info, "fiftyTwoWeekLow"))
           @@ ("50_day_avg" :> Get(resp.info, "fiftyDayAverage"))
           @@ ("200_day_avg" :> Get(resp.info, "twoHundredDayAverage")),
           YahooRequests(resp))

get_stock_quote_runs(ticker) == {get_stock_quote(ticker, r) : r \in YahooResponses}

\* What an HTTP quote endpoint answers: an exception, or a JSON payload.
\* Finnhub's payload is a dict of c, d, dp, h, l, o, pc, t.
FinnhubPayloads ==
    {[c |-> 5, d |-> 0, dp |-> 0, h |-> 5, l |-> 5, o |-> 5, pc |-> 5, t |-> 0],
     [c |-> 5, d |-> 5, h |-> 5, l |-> 0]}

FinnhubResponses ==
    {[exc |-> x, data |-> << >>] : x \in NetworkErrors}
    \cup {[exc |-> "", data |-> d] : d \in FinnhubPayloads}

\* FinancialDataFetcher.get_finnhub_quote (lines 153-180), given the response
\* the request would get.  The credential test of line 153 is outside the try.
get_finnhub_quote(e, ticker, resp) ==
    LET key == ConfigAttr(e, "FINNHUB_API_KEY") IN
    IF key.exc /= "" THEN Raised(key.exc, <<>>)
    ELSE IF key.val = None
    THEN Returned([error |-> FString("Finnhub API key not configured", <<>>, <<>>)], <<>>)
    ELSE IF resp.exc /= ""
    THEN Returned([error |-> FString("Finnhub API error: {}", <<>>, <<resp.exc>>)], <<Request("session.get", resp.exc)>>)
    ELSE Returned(
           [ticker |-> Upper(ticker),
            current_price |-> Get(resp.data, "c"),
            change |-> Get(resp.data, "d"),
            percent_change |-> Get(resp.data, "dp"),
            high |-> Get(resp.data, "h"),
            low |-> Get(resp.data, "l"),
            open |-> Get(resp.data, "o"),
            previous_close |-> Get(resp.data, "pc"),
            timestamp |-> "fromtimestamp",
            source |-> "Finnhub"], <<Request("session.get", resp.exc)>>)

get_finnhub_quote_runs(e, ticker) ==
    {get_finnhub_quote(e, ticker, r) : r \in FinnhubResponses}

\* FMP's payload is a list of quote dicts; the adapter reads the first.
FmpPayloads ==
    {<<>>,
     <<[price |-> 5, change |-> 0, changesPercentage |-> 0, dayHigh |-> 5,
        dayLow |-> 5, volume |-> 0, marketCap |-> 5, pe |-> 5]>>,
     <<[price |-> 5, dayLow |-> 5]>>}

FmpResponses ==
    {[exc |-> x, data |-> << >>] : x \in NetworkErrors}
    \cup {[exc |-> "", data |-> d] : d \in FmpPayloads}

\* FinancialDataFetcher.get_fmp_quote (lines 228-261).  The credential test
\* of line 228 is outside the try.
get_fmp_quote(e, ticker, resp) ==
    LET key == ConfigAttr(e, "FMP_API_KEY") IN
    IF key.exc /= "" THEN Raised(key.exc, <<>>)
    ELSE IF key.val = None
    THEN Returned([error |-> FString("FMP API key not configured", <<>>, <<>>)], <<>>)
    ELSE IF resp.exc /= ""
    THEN Returned([error |-> FString("FMP API error: {}", <<>>, <<resp.exc>>)], <<Request("session.get", resp.exc)>>)
    ELSE IF resp.data = <<>>
    THEN Returned([error |-> FString("No data returned", <<>>, <<>>)], <<Request("session.get", resp.exc)>>)
    ELSE LET quote == resp.data[1] IN
         Returned(
           [ticker |-> Upper(ticker),
            current_price |-> Get(quote, "price"),
            change |-> Get(quote, "change"),
            percent_change |-> Get(quote, "changesPercentage"),
            day_high |-> Get(quote, "dayHigh"),
            day_low |-> Get(quote, "dayLow"),
            open |-> Get(quote, "open"),
            previous_close |-> Get(quote, "previousClose"),
            volume |-> Get(quote, "volume"),
            avg_volume |-> Get(quote, "avgVolume"),
            market_cap |-> Get(quote, "marketCap"),
            pe |-> Get(quote, "pe"),
            eps |-> Get(quote, "eps"),
            timestamp |-> "now",
            source |-> "Financial Modeling Prep"], <<Request("session.get", resp.exc)>>)

get_fmp_quote_runs(e, ticker) == {get_fmp_quote(e, ticker, r) : r \in FmpResponses}

\* CoinGecko's payload maps each coin id found to its data.
CryptoIds == {"bitcoin", "nocoin"}

CoinGeckoResponses ==
    {[exc |-> x, data |-> << >>] : x \in NetworkErrors}
    \cup {[exc |-> "", data |-> << >>]}
    \cup {[exc |-> "", data |-> [bitcoin |-> d]] :
            d \in {[usd |-> 5, usd_market_cap |-> 5, usd_24h_vol |-> 0,
                    usd_24h_change |-> 0, last_updated_at |-> 5],
                   [usd |-> 5]}}

\* FinancialDataFetcher.get_crypto_price (lines 275-305).
get_crypto_price(crypto_id, resp) ==
    IF resp.exc /= ""
    THEN Returned([error |-> FString("CoinGecko API error: {}", <<>>, <<resp.exc>>)], <<Request("session.get", resp.exc)>>)
    ELSE IF crypto_id \notin DOMAIN resp.data
    THEN Returned([error |-> FString("Crypto {} not found", <<>>, <<crypto_id>>)], <<Request("session.get", resp.exc)>>)
    ELSE LET coin_data == resp.data[crypto_id] IN
         Returned(
           [crypto_id |-> crypto_id,
            current_price |-> Get(coin_data, "usd"),
            market_cap |-> Get(coin_data, "usd_market_cap"),
            last_updated |-> "fromtimestamp",
            source |-> "CoinGecko"]
           @@ ("24h_volume" :> Get(coin_data, "usd_24h_vol"))
           @@ ("24h_change" :> Get(coin_data, "usd_24h_change")), <<Request("session.get", resp.exc)>>)

get_crypto_price_runs(crypto_id) ==
    {get_crypto_price(crypto_id, r) : r \in CoinGeckoResponses}

\* What Yahoo Finance answers to the Ticker(...).info of get_company_info.
\* The description is given by its length in characters.
CompanyResponses ==
    {[exc |-> "ConnectionError", info |-> << >>],
     [exc |-> "", info |-> [longName |-> "Acme", sector |-> "Tech", longBusinessSummary |-> 12]],
     [exc |-> "", info |-> [longName |-> "Acme", industry |-> "Software", country |-> "US",
                            longBusinessSummary |-> 450]]}

\* str.strip(', ') of "city, state, country": the three parts, without the
\* empty parts at either end.
RECURSIVE StripParts(_)
StripParts(parts) ==
    IF parts = <<>> THEN <<>>
    ELSE IF Head(parts) = "" THEN StripParts(Tail(parts))
    ELSE IF parts[Len(parts)] = "" THEN StripParts(SubSeq(parts, 1, Len(parts) - 1))
    ELSE parts

\* info.get(key, '')
GetStr(d, k) == IF k \in DOMAIN d THEN d[k] ELSE ""

\* FinancialDataFetcher.get_company_info (lines 100-119).
get_company_info(ticker, resp) ==
    IF resp.exc /= ""
    THEN Returned([error |-> FString("Failed to fetch company info: {}", <<>>, <<resp.exc>>)],
                  <<Request("stock.info", resp.exc)>>)
    ELSE Returned(
           [ticker |-> Upper(ticker),
            company_name |-> Get(resp.info, "longName"),
            sector |-> Get(resp.info, "sector"),
            industry |-> Get(resp.info, "industry"),
            description |-> Get(resp.info, "longBusinessSummary"),
            website |-> Get(resp.info, "website"),
            employees |-> Get(resp.info, "fullTimeEmployees"),
            headquarters |-> StripParts(<<GetStr(resp.info, "city"), GetStr(resp.info, "state"),
                                          GetStr(resp.info, "country")>>),
            founded |-> Get(resp.info, "founded"),
            exchange |-> Get(resp.info, "exchange"),
            currency |-> Get(resp.info, "currency"),
            source |-> "Yahoo Finance"], <<Request("stock.info", "")>>)

get_company_info_runs(ticker) == {get_company_info(ticker, r) : r \in CompanyResponses}

\* Finnhub's company-news payload: a list of items, newest first; item i
\* carries the headline i.  Up to MaxNewsExtra items beyond the first 10.
NewsItem(i) == [headline |-> i, summary |-> i, source |-> "wire", url |-> "u", datetime |-> i]

NewsPayloads == {[i \in 1..n |-> NewsItem(i)] : n \in 0..(NewsLimit + MaxNewsExtra)}

NewsResponses ==
    {[exc |-> x, data |-> << >>] : x \in NetworkErrors}
    \cup {[exc |-> "", data |-> d] : d \in NewsPayloads}

\* news[:n]
Prefix(s, n) == SubSeq(s, 1, IF Len(s) < n THEN Len(s) ELSE n)

\* FinancialDataFetcher.get_company_news (lines 186-219).  The credential
\* test of line 186 is outside the try.
get_company_news(e, ticker, days_back, resp) ==
    LET key == ConfigAttr(e, "FINNHUB_API_KEY") IN
    IF key.exc /= "" THEN Raised(key.exc, <<>>)
    ELSE IF key.val = None THEN Returned([list |-> <<>>], <<>>)
    ELSE IF resp.exc /= "" THEN Returned([list |-> <<>>], <<Request("session.get", resp.exc)>>)
    ELSE LET news == Prefix(resp.data, NewsLimit) IN
         Returned(
           [list |-> [i \in DOMAIN news |->
                        [headline |-> Get(news[i], "headline"),
                         summary |-> Get(news[i], "summary"),
                         source |-> Get(news[i], "source"),
                         url |-> Get(news[i], "url"),
                         datetime |-> "fromtimestamp"]]],
           <<Request("session.get", "")>>)

get_company_news_runs(e, ticker, days_back) ==
    {get_company_news(e, ticker, days_back, r) : r \in NewsResponses}

(***************************** aggregator *********************************)

\* The aggregate error record of line 336.
NoSourceError(ticker) ==
    [error |-> FString("Unable to fetch quote for {} from any source", <<ticker>>, <<>>)]

\* get_comprehensive_quote from line 331 on: the FMP fallback and the
\* aggregate error.  log is the log of the call so far.
FmpFallback(e, ticker, log) ==
    LET key == ConfigAttr(e, "FMP_API_KEY") IN
    IF key.exc /= "" THEN {Raised(key.exc, log)}
    ELSE IF key.val = None THEN {Returned(NoSourceError(ticker), log)}
    ELSE {LET log2 == log \o r.calls \o <<Call("get_fmp_quote", [ticker |-> ticker], r)>> IN
          IF r.status = "raised" THEN Raised(r.exc, log2)
          ELSE IF ~IsError(r.ret) THEN Returned(r.ret, log2)
          ELSE Returned(NoSourceError(ticker), log2)
          : r \in get_fmp_quote_runs(e, ticker)}

\* get_comprehensive_quote from line 325 on: the Finnhub fallback, then the
\* rest of the chain.
FinnhubFallback(e, ticker, log) ==
    LET key == ConfigAttr(e, "FINNHUB_API_KEY") IN
    IF key.exc /= "" THEN {Raised(key.exc, log)}
    ELSE IF key.val = None THEN FmpFallback(e, ticker, log)
    ELSE UNION {LET log2 == log \o r.calls \o <<Call("get_finnhub_quote", [ticker |-> ticker], r)>> IN
                IF r.status = "raised" THEN {Raised(r.exc, log2)}
                ELSE IF ~IsError(r.ret) THEN {Returned(r.ret, log2)}
                ELSE FmpFallback(e, ticker, log2)
                : r \in get_finnhub_quote_runs(e, ticker)}

\* AfterPrimary without the early return of lines 321-322: the fallback
\* chain is entered whatever the primary answered.
AfterPrimaryNoEarlyReturn(e, ticker, yf) ==
    LET log == yf.calls \o <<Call("get_stock_quote", [ticker |-> ticker], yf)>> IN
    {IF r.status = "returned" /\ IsError(r.ret) /\ ~IsError(yf.ret)
     THEN Returned(yf.ret, r.calls) ELSE r
     : r \in FinnhubFallback(e, ticker, log)}

\* What get_comprehensive_quote does once get_stock_quote has ended as the
\* run yf (lines 320-336).
AfterPrimary(e, ticker, yf) ==
    LET log == yf.calls \o <<Call("get_stock_quote", [ticker |-> ticker], yf)>> IN
    IF ~IsError(yf.ret) THEN {Returned(yf.ret, log)}
    ELSE FinnhubFallback(e, ticker, log)

\* FinancialDataFetcher.get_comprehensive_quote (lines 319-336): its runs.
get_comprehensive_quote_runs(e, ticker) ==
    UNION {AfterPrimary(e, ticker, yf) : yf \in get_stock_quote_runs(ticker)}

(*************************** market overview ******************************)

\* The dict indices of lines 401-406, in its order: name and symbol.
Indices ==
    <<[name |-> "S&P 500", symbol |-> <<"^", "G", "S", "P", "C">>],
      [name |-> "Dow Jones", symbol |-> <<"^", "D", "J", "I">>],
      [name |-> "NASDAQ", symbol |-> <<"^", "I", "X", "I", "C">>],
      [name |-> "Russell 2000", symbol |-> <<"^", "R", "U", "T">>]>>

\* What Yahoo Finance answers for an index, as far as the overview reads
\* it: an exception, or a payload reporting at most a price.
IndexResponses ==
    {r \in YahooResponses : r.exc /= "" \/ (r.info = << >> /\ r.close \in {None, Some(5)})}

\* The entry of line 413-417 for a quote.
OverviewEntry(quote) ==
    [price |-> QGet(quote, "current_price"),
     change |-> QGet(quote, "change"),
     change_percent |-> QGet(quote, "percent_change")]

\* OverviewFrom with break in place of continue: the loop ends at the first
\* index whose fetch failed.
RECURSIVE OverviewUntilFailure(_, _, _)
OverviewUntilFailure(i, overview, log) ==
    IF i > Len(Indices) THEN {Returned(overview, log)}
    ELSE UNION {LET log2 == log \o q.calls
                            \o <<Call("get_stock_quote", [ticker |-> Indices[i].symbol], q)>> IN
                IF q.status = "returned" /\ ~IsError(q.ret)
                THEN OverviewUntilFailure(i + 1,
                        overview @@ (Indices[i].name :> OverviewEntry(q.ret)), log2)
                ELSE {Returned(overview, log2)}
                : q \in {get_stock_quote(Indices[i].symbol, r) : r \in IndexResponses}}

\* The loop of lines 409-419 from the i-th index on; overview and log are
\* the mapping and the log so far.  An exception of get_stock_quote is
\* swallowed by the bare except (lines 418-419).
RECURSIVE OverviewFrom(_, _, _)
OverviewFrom(i, overview, log) ==
    IF i > Len(Indices) THEN {Returned(overview, log)}
    ELSE UNION {LET log2 == log \o q.calls
                            \o <<Call("get_stock_quote", [ticker |-> Indices[i].symbol], q)>> IN
                IF q.status = "returned" /\ ~IsError(q.ret)
                THEN OverviewFrom(i + 1,
                        overview @@ (Indices[i].name :> OverviewEntry(q.ret)), log2)
                ELSE OverviewFrom(i + 1, overview, log2)
                : q \in {get_stock_quote(Indices[i].symbol, r) : r \in IndexResponses}}

\* FinancialDataFetcher.get_market_overview (lines 401-421): its runs.
get_market_overview_runs == OverviewFrom(1, << >>, <<>>)

(***************************** formatter **********************************)

\* One line of the context text: the f-string's template, and the values
\* interpolated into it: tickers, numbers (None prints as "None"), strings,
\* and an error reason.
Line(fmt, targs, nargs, sargs) ==
    [fmt |-> fmt, targs |-> targs, nargs |-> nargs, sargs |-> sargs, reasons |-> <<>>]

Literal(fmt) == Line(fmt, <<>>, <<>>, <<>>)

\* The element "" of context_parts: an empty line of the text.
Blank == Literal("")

\* The default 'N/A' of quote.get(key, 'N/A'): a str where a number is
\* expected, told from a number by its shape.
NA == <<"N/A", "N/A">>

QGetOr(d, k, default) == IF k \in DOMAIN d THEN d[k] ELSE default

\* format(x, ".2f") and the like raise on None (TypeError) and on a str
\* (ValueError); they format a number.
FormatError(x) ==
    IF x = None THEN "TypeError" ELSE IF Len(x) /= 1 THEN "ValueError" ELSE ""

\* str(x) of an optional string, as an f-string prints it.
Str(x) == IF x = None THEN "None" ELSE x[1]

\* company.get(key, 'N/A'), printed.
CompanyStr(company, k) == IF k \in DOMAIN company THEN Str(company[k]) ELSE "N/A"

\* The list literal context_parts of lines 356-374.  Each element is a line,
\* or the exception that evaluating its f-string raises.
ContextParts(ticker, quote, company) ==
    <<[exc |-> "", line |-> Line("=== REAL-TIME DATA FOR {} ===", <<ticker>>, <<>>, <<>>)],
      [exc |-> "", line |-> Line("Retrieved: {}", <<>>, <<>>, <<GetStr(quote, "timestamp")>>)],
      [exc |-> "", line |-> Line("Source: {}", <<>>, <<>>, <<GetStr(quote, "source")>>)],
      [exc |-> "", line |-> Blank],
      [exc |-> "", line |-> Line("Company: {}", <<>>, <<>>, <<CompanyStr(company, "company_name")>>)],
      [exc |-> "", line |-> Line("Sector: {} | Industry: {}", <<>>, <<>>,
                                 <<CompanyStr(company, "sector"), CompanyStr(company, "industry")>>)],
      [exc |-> "", line |-> Blank],
      [exc |-> "", line |-> Literal("CURRENT TRADING DATA:")],
      IF Truthy(QGet(quote, "current_price"))
      THEN [exc |-> FormatError(QGetOr(quote, "current_price", NA)),
            line |-> Line("  Price: ${:.2f}", <<>>, <<QGetOr(quote, "current_price", NA)>>, <<>>)]
      ELSE [exc |-> "", line |-> Literal("  Price: N/A")],
      IF Truthy(QGet(quote, "change"))
      THEN [exc |-> "",
            line |-> Line("  Change: {} ({}%)", <<>>,
                          <<QGetOr(quote, "change", NA), QGetOr(quote, "percent_change", NA)>>, <<>>)]
      ELSE [exc |-> "", line |-> Blank],
      IF Truthy(QGet(quote, "day_low"))
      THEN [exc |-> IF FormatError(QGetOr(quote, "day_low", NA)) /= ""
                    THEN FormatError(QGetOr(quote, "day_low", NA))
                    ELSE FormatError(QGetOr(quote, "day_high", NA)),
            line |-> Line("  Day Range: ${:.2f} - ${:.2f}", <<>>,
                          <<QGetOr(quote, "day_low", NA), QGetOr(quote, "day_high", NA)>>, <<>>)]
      ELSE [exc |-> "", line |-> Blank],
      IF Truthy(QGet(quote, "volume"))
      THEN [exc |-> FormatError(QGetOr(quote, "volume", NA)),
            line |-> Line("  Volume: {:,}", <<>>, <<QGetOr(quote, "volume", NA)>>, <<>>)]
      ELSE [exc |-> "", line |-> Blank],
      [exc |-> "", line |-> Blank],
      [exc |-> "", line |-> Literal("KEY METRICS:")],
      IF Truthy(QGet(quote, "market_cap"))
      THEN [exc |-> FormatError(QGetOr(quote, "market_cap", Some(0))),
            line |-> Line("  Market Cap: ${:,.0f}", <<>>, <<QGetOr(quote, "market_cap", Some(0))>>, <<>>)]
      ELSE [exc |-> "", line |-> Blank],
      IF Truthy(QGet(quote, "pe_ratio"))
      THEN [exc |-> FormatError(QGetOr(quote, "pe_ratio", NA)),
            line |-> Line("  P/E Ratio: {:.2f}", <<>>, <<QGetOr(quote, "pe_ratio", NA)>>, <<>>)]
      ELSE [exc |-> "", line |-> Blank],
      IF Truthy(QGet(quote, "52_week_low"))
      THEN [exc |-> "",
            line |-> Line("  52-Week Range: ${} - ${}", <<>>,
                          <<QGetOr(quote, "52_week_low", NA), QGetOr(quote, "52_week_high", NA)>>, <<>>)]
      ELSE [exc |-> "", line |-> Blank]>>

\* The company overview of lines 377-382: nothing unless the description is
\* truthy; else a blank line, the heading, and the description cut to 400
\* characters with "..." appended when it was longer.
Overview(company) ==
    LET d == QGet(company, "description") IN
    IF ~Truthy(d) THEN <<>>
    ELSE <<Blank, Literal("COMPANY OVERVIEW:"),
           IF d[1] > OverviewLimit THEN Line("{}...", <<>>, <<Some(OverviewLimit)>>, <<>>)
           ELSE Line("{}", <<>>, <<d>>, <<>>)>>

\* The news lines of lines 387-393, for the list get_company_news returned.
NewsLines(news) ==
    IF news = <<>> THEN <<>>
    ELSE <<Blank, Literal("RECENT NEWS:")>>
         \o [i \in DOMAIN Prefix(news, ContextNewsLimit) |->
               Line("  {}. {} ({})", <<>>, <<Some(i), news[i].headline>>, <<Str(news[i].source)>>)]

\* "\n".join(context_parts): the lines of the text, one per element, an
\* element "" giving an empty line.
Join(parts) == [text |-> parts]

\* The first exception among the elements of context_parts, "" if none.
FirstError(parts) ==
    LET bad == {i \in DOMAIN parts : parts[i].exc /= ""} IN
    IF bad = {} THEN "" ELSE parts[CHOOSE i \in bad : \A j \in bad : i <= j].exc

\* format_for_context from line 385 on: the optional news and the join.
\* lines are the lines so far, log the log so far.
WithNews(e, ticker, include_news, lines, log) ==
    IF ~include_news THEN {Returned(Join(lines), log)}
    ELSE LET key == ConfigAttr(e, "FINNHUB_API_KEY") IN
         IF key.exc /= "" THEN {Raised(key.exc, log)}
         ELSE IF key.val = None THEN {Returned(Join(lines), log)}
         ELSE {LET log2 == log \o n.calls \o <<Call("get_company_news", [ticker |-> ticker, days_back |-> ContextNewsDays], n)>> IN
               IF n.status = "raised" THEN Raised(n.exc, log2)
               ELSE Returned(Join(lines \o NewsLines(n.ret.list)), log2)
               : n \in get_company_news_runs(e, ticker, ContextNewsDays)}

\* format_for_context from line 352 on, for the quote and the company
\* profile obtained.
Render(e, ticker, include_news, quote, company, log) ==
    IF IsError(quote)
    THEN {Returned([text |-> <<[Line("Unable to retrieve real-time data for {}: {}",
                                     <<ticker>>, <<>>, <<>>)
                                EXCEPT !.reasons = <<quote.error>>]>>], log)}
    ELSE LET parts == ContextParts(ticker, quote, company) IN
         IF FirstError(parts) /= "" THEN {Raised(FirstError(parts), log)}
         ELSE WithNews(e, ticker, include_news,
                       [i \in DOMAIN parts |-> parts[i].line] \o Overview(company), log)

\* format_for_context once get_comprehensive_quote has ended as the run q:
\* get_company_info is called (line 350), then the text is built.
AfterQuote(e, ticker, include_news, q) ==
    LET log == q.calls \o <<Call("get_comprehensive_quote", [ticker |-> ticker], q)>> IN
    IF q.status = "raised" THEN {Raised(q.exc, log)}
    ELSE UNION {Render(e, ticker, include_news, q.ret, c.ret,
                       log \o c.calls \o <<Call("get_company_info", [ticker |-> ticker], c)>>)
                : c \in get_company_info_runs(ticker)}

\* FinancialDataFetcher.format_for_context (lines 349-395): its runs.
format_for_context_runs(e, ticker, include_news) ==
    UNION {AfterQuote(e, ticker, include_news, q) : q \in get_comprehensive_quote_runs(e, ticker)}

(************************** document pipeline *****************************)

\* str.lower() of a file suffix.
Lower(suffix) ==
    IF suffix = ".PDF" THEN ".pdf" ELSE IF suffix = ".TXT" THEN ".txt" ELSE suffix

\* A path: directory, stem and suffix.  Path(p).name is stem + suffix.
FilePath(stem, suffix) == [dir |-> "data/documents", stem |-> stem, suffix |-> suffix]

Name(path) == [stem |-> path.stem, suffix |-> path.suffix]

\* Contents of a text file, as far as the pipeline tells them apart.
Texts == {<<>>, <<"x">>, <<"x", "\n", "x">>}

\* What reading a path as UTF-8 text gives: an exception of open() or of
\* the decoding, or the text.
TextReads ==
    {[exc |-> "UnicodeDecodeError", text |-> <<>>]}
    \cup {[exc |-> "", text |-> t] : t \in Texts}

\* The pages of a PDF, each by what page.extract_text() gives: the page's
\* text, or None.
PageLists ==
    {<<>>, <<Some(<<>>)>>, <<Some(<<"x">>)>>, <<Some(<<"x">>), Some(<<"x">>)>>,
     <<Some(<<"x">>), None>>}

\* What reading a path as a PDF gives: an exception of open() or of
\* PdfReader, or the pages.
PdfReads ==
    {[exc |-> "PdfReadError", pages |-> <<>>]}
    \cup {[exc |-> "", pages |-> ps] : ps \in PageLists}

\* DocumentProcessor.read_text_file (lines 60-65).
read_text_file(read) == IF read.exc /= "" THEN <<>> ELSE read.text

\* The loop of lines 42-43 over the pages from the i-th on: the text
\* accumulated, or the TypeError of None + "\n".
RECURSIVE PagesText(_, _, _)
PagesText(pages, i, text) ==
    IF i > Len(pages) THEN [exc |-> "", text |-> text]
    ELSE IF pages[i] = None THEN [exc |-> "TypeError", text |-> <<>>]
    ELSE PagesText(pages, i + 1, text \o pages[i][1] \o <<"\n">>)

\* DocumentProcessor.extract_text_from_pdf (lines 37-48).
extract_text_from_pdf(read) ==
    IF read.exc /= "" THEN <<>>
    ELSE LET r == PagesText(read.pages, 1, <<>>) IN
         IF r.exc /= "" THEN <<>> ELSE r.text

\* A directory entry: its path, whether it is a regular file, and what
\* reading it gives with the reader its suffix selects.
Entries(stem) ==
    {[path |-> FilePath(stem, ".txt"), is_file |-> TRUE, read |-> r] : r \in TextReads}
    \cup {[path |-> FilePath(stem, ".TXT"), is_file |-> TRUE, read |-> [exc |-> "", text |-> <<"x">>]]}
    \cup {[path |-> FilePath(stem, ".pdf"), is_file |-> TRUE, read |-> r] : r \in PdfReads}
    \cup {[path |-> FilePath(stem, ".csv"), is_file |-> TRUE, read |-> [exc |-> "", text |-> <<"x">>]],
          [path |-> FilePath(stem, ".txt"), is_file |-> FALSE,
           read |-> [exc |-> "IsADirectoryError", text |-> <<>>]]}

\* RecursiveCharacterTextSplitter.split_text (built on lines 16-21, called
\* on line 93): some number of pieces of the text, in document order.
SplitTexts(text) ==
    {[k \in 1..n |-> [of |-> text, piece |-> k]] : n \in 0..MaxChunks}

\* Documents with chunk_id counted from 1 (enumerate(chunks, 1)).
DocumentsFromOne(file, chunks) ==
    [i \in DOMAIN chunks |->
        [content |-> chunks[i],
         metadata |-> [source |-> Name(file.path),
                       chunk_id |-> i,
                       total_chunks |-> Len(chunks),
                       file_path |-> file.path]]]

\* Lines 96-106: the documents for the chunks, with their metadata.
Documents(file, chunks) ==
    [i \in DOMAIN chunks |->
        [content |-> chunks[i],
         metadata |-> [source |-> Name(file.path),
                       chunk_id |-> i - 1,
                       total_chunks |-> Len(chunks),
                       file_path |-> file.path]]]

\* DocumentProcessor.process_document (lines 77-108): its runs, one for
\* each result of the splitter.
process_document_runs(file) ==
    LET file_extension == Lower(file.path.suffix)
        text == IF file_extension = ".pdf" THEN extract_text_from_pdf(file.read)
                ELSE read_text_file(file.read)
    IN  IF file_extension \notin {".pdf", ".txt"} THEN {Returned([list |-> <<>>], <<>>)}
        ELSE IF text = <<>> THEN {Returned([list |-> <<>>], <<>>)}
        ELSE {Returned([list |-> Documents(file, chunks)], <<>>) : chunks \in SplitTexts(text)}

\* Walk ending at the first file that yields no documents, as it would if
\* a failed extraction were not recovered inside process_document.
RECURSIVE WalkUntilFailure(_, _, _, _)
WalkUntilFailure(listing, i, all_documents, log) ==
    IF i > Len(listing) THEN {Returned([list |-> all_documents], log)}
    ELSE IF listing[i].is_file /\ Lower(listing[i].path.suffix) \in {".pdf", ".txt"}
    THEN UNION {IF d.ret.list = <<>>
                THEN {Returned([list |-> all_documents],
                               log \o <<Call("process_document", [file |-> listing[i]], d)>>)}
                ELSE WalkUntilFailure(listing, i + 1, all_documents \o d.ret.list,
                                      log \o <<Call("process_document", [file |-> listing[i]], d)>>)
                : d \in process_document_runs(listing[i])}
    ELSE WalkUntilFailure(listing, i + 1, all_documents, log)

\* The loop of lines 125-129 from the i-th entry of the listing on;
\* all_documents and log are the documents and the calls so far.
RECURSIVE Walk(_, _, _, _)
Walk(listing, i, all_documents, log) ==
    IF i > Len(listing) THEN {Returned([list |-> all_documents], log)}
    ELSE IF listing[i].is_file /\ Lower(listing[i].path.suffix) \in {".pdf", ".txt"}
    THEN UNION {IF d.status = "raised"
                THEN {Raised(d.exc, log \o <<Call("process_document", [file |-> listing[i]], d)>>)}
                ELSE Walk(listing, i + 1, all_documents \o d.ret.list,
                          log \o <<Call("process_document", [file |-> listing[i]], d)>>)
                : d \in process_document_runs(listing[i])}
    ELSE Walk(listing, i + 1, all_documents, log)

\* DocumentProcessor.process_directory (lines 120-132): its runs, for the
\* entries Path(directory).glob('**/*') yields, in that order.
process_directory_runs(listing) == Walk(listing, 1, <<>>, <<>>)

\* Listings of a directory: up to MaxFiles entries, the i-th with stem i.
RECURSIVE Listings(_)
Listings(n) ==
    IF n = 0 THEN {<<>>}
    ELSE Listings(n - 1)
         \cup {Append(l, f) : l \in {l \in Listings(n - 1) : Len(l) = n - 1}, f \in Entries(n)}

(***************************** behaviours *********************************)

Init ==
    /\ env \in SUBSET EnvNames
    /\ pc = "idle"
    /\ op = "none"
    /\ arg = [none |-> TRUE]
    /\ result = [status |-> "idle", ret |-> NoValue, exc |-> "", calls |-> <<>>]

\* The call op(a) is made and ends as the run r.
Finish(name, a, r) ==
    /\ pc' = "done"
    /\ op' = name
    /\ arg' = a
    /\ result' = r
    /\ UNCHANGED env

GetStockQuote ==
    /\ pc = "idle"
    /\ \E t \in Tickers : \E r \in get_stock_quote_runs(t) :
          Finish("get_stock_quote", [ticker |-> t], r)

GetFinnhubQuote ==
    /\ pc = "idle"
    /\ \E t \in Tickers : \E r \in get_finnhub_quote_runs(env, t) :
          Finish("get_finnhub_quote", [ticker |-> t], r)

GetFmpQuote ==
    /\ pc = "idle"
    /\ \E t \in Tickers : \E r \in get_fmp_quote_runs(env, t) :
          Finish("get_fmp_quote", [ticker |-> t], r)

GetCryptoPrice ==
    /\ pc = "idle"
    /\ \E c \in CryptoIds : \E r \in get_crypto_price_runs(c) :
          Finish("get_crypto_price", [crypto_id |-> c], r)

GetCompanyInfo ==
    /\ pc = "idle"
    /\ \E t \in Tickers : \E r \in get_company_info_runs(t) :
          Finish("get_company_info", [ticker |-> t], r)

GetCompanyNews ==
    /\ pc = "idle"
    /\ \E t \in Tickers : \E d \in {1, ContextNewsDays} : \E r \in get_company_news_runs(env, t, d) :
          Finish("get_company_news", [ticker |-> t, days_back |-> d], r)

GetComprehensiveQuote ==
    /\ pc = "idle"
    /\ \E t \in Tickers : \E r \in get_comprehensive_quote_runs(env, t) :
          Finish("get_comprehensive_quote", [ticker |-> t], r)

FormatForContext ==
    /\ pc = "idle"
    /\ \E t \in Tickers : \E n \in BOOLEAN : \E r \in format_for_context_runs(env, t, n) :
          Finish("format_for_context", [ticker |-> t, include_news |-> n], r)

GetMarketOverview ==
    /\ pc = "idle"
    /\ \E r \in get_market_overview_runs :
          Finish("get_market_overview", [none |-> TRUE], r)

ProcessDocument ==
    /\ pc = "idle"
    /\ \E f \in Entries(1) : \E r \in process_document_runs(f) :
          Finish("process_document", [file |-> f], r)

ProcessDirectory ==
    /\ pc = "idle"
    /\ \E l \in Listings(MaxFiles) : \E r \in process_directory_runs(l) :
          Finish("process_directory", [listing |-> l], r)

Next ==
    \/ GetStockQuote
    \/ GetFinnhubQuote
    \/ GetFmpQuote
    \/ GetCryptoPrice
    \/ GetCompanyInfo
    \/ GetCompanyNews
    \/ GetComprehensiveQuote
    \/ FormatForContext
    \/ GetMarketOverview
    \/ ProcessDocument
    \/ ProcessDirectory

Spec == Init /\ [][Next]_vars

(******************************* claims ***********************************)

\* The call of fn logged by the current call, when there is exactly one.
TheCall(fn) == CallsTo(result.calls, fn)[1]

Called(fn) == CallsTo(result.calls, fn) /= <<>>

\* The call made get_stock_quote, and it returned a success record.
PrimarySucceeded ==
    /\ Called("get_stock_quote")
    /\ TheCall("get_stock_quote").status = "returned"
    /\ ~IsError(TheCall("get_stock_quote").ret)

\* The call made get_stock_quote, and it returned an error record.
PrimaryFailed ==
    /\ Called("get_stock_quote")
    /\ TheCall("get_stock_quote").status = "returned"
    /\ IsError(TheCall("get_stock_quote").ret)

\* The secondary adapter fn was called and returned a success record.
SecondarySucceeded(fn) ==
    /\ Called(fn)
    /\ TheCall(fn).status = "returned"
    /\ ~IsError(TheCall(fn).ret)

\* The position in the log of the first call of fn, 0 if there is none.
FirstCall(fn) ==
    LET at == {i \in DOMAIN result.calls : result.calls[i].fn = fn} IN
    IF at = {} THEN 0 ELSE CHOOSE i \in at : \A j \in at : i <= j

\* C1: in get_comprehensive_quote, when the primary keyless source
\* (get_stock_quote) returns a success record, that very record is returned
\* and neither get_finnhub_quote nor get_fmp_quote is called, whatever the
\* ticker and whichever secondary credentials are set.
C1_PrimarySuccessShortCircuits ==
    (op = "get_comprehensive_quote" /\ PrimarySucceeded) =>
        /\ result.status = "returned"
        /\ result.ret = TheCall("get_stock_quote").ret
        /\ ~Called("get_finnhub_quote")
        /\ ~Called("get_fmp_quote")
        /\ result.calls[Len(result.calls)].fn = "get_stock_quote"

\* C1 witness: a successful primary with both secondary credentials set.
C1_Witness ==
    /\ op = "get_comprehensive_quote"
    /\ PrimarySucceeded
    /\ env = EnvNames
    /\ arg.ticker = <<"a", "b">>
    /\ result.ret.source = "Yahoo Finance"

\* C2: in get_comprehensive_quote, when the primary fails, the chain goes
\* on without an exception leaving it: Finnhub is tried when its credential
\* is set, before FMP, and a secondary that succeeds has its record
\* returned, with source naming that secondary.
C2_SecondaryFallback ==
    (op = "get_comprehensive_quote" /\ PrimaryFailed) =>
        /\ result.status = "returned"
        /\ ("FINHUB_API_KEY" \in env => Called("get_finnhub_quote"))
        /\ (Called("get_finnhub_quote") /\ Called("get_fmp_quote")
              => FirstCall("get_finnhub_quote") < FirstCall("get_fmp_quote"))
        /\ (SecondarySucceeded("get_finnhub_quote")
              => result.ret = TheCall("get_finnhub_quote").ret /\ result.ret.source = "Finnhub")
        /\ (SecondarySucceeded("get_fmp_quote")
              => result.ret = TheCall("get_fmp_quote").ret
                 /\ result.ret.source = "Financial Modeling Prep")

\* C3: in get_comprehensive_quote, when the primary fails and no secondary
\* gives a success record (it failed or is not configured), the call
\* returns an error record whose reason mentions the ticker; it does not
\* raise.
C3_AllFailAggregateError ==
    (/\ op = "get_comprehensive_quote"
     /\ PrimaryFailed
     /\ ~SecondarySucceeded("get_finnhub_quote")
     /\ ~SecondarySucceeded("get_fmp_quote")) =>
        /\ result.status = "returned"
        /\ IsError(result.ret)
        /\ arg.ticker \in Range(result.ret.error.targs)

\* The records the adapters called by the current call returned.
AdapterRecords ==
    {result.calls[i].ret : i \in {j \in DOMAIN result.calls :
        /\ result.calls[j].fn \in {"get_stock_quote", "get_finnhub_quote", "get_fmp_quote"}
        /\ result.calls[j].status = "returned"}}

\* C4: get_comprehensive_quote returns, for every ticker, provider outcome
\* and credential setting, exactly one of: a success record whose ticker is
\* the input upper-cased, or an error record with a non-empty reason; and a
\* success record is the record of one provider, not a mix of two.
C4_ExactlyOneShape ==
    op = "get_comprehensive_quote" =>
        /\ result.status = "returned"
        /\ IF IsError(result.ret)
           THEN DOMAIN result.ret = {"error"} /\ result.ret.error.fmt /= ""
           ELSE result.ret.ticker = Upper(arg.ticker) /\ result.ret \in AdapterRecords

\* Some outbound request of the current call ended in an exception.
RequestFailed == \E i \in DOMAIN result.calls : result.calls[i].status = "raised"

\* C5: each adapter (get_stock_quote, get_finnhub_quote, get_fmp_quote,
\* get_crypto_price) returns and never raises, the credential test
\* included; when its request failed it returns an error record with a
\* reason.
C5_AdaptersNeverRaise ==
    op \in {"get_stock_quote", "get_finnhub_quote", "get_fmp_quote", "get_crypto_price"} =>
        /\ result.status = "returned"
        /\ (RequestFailed => IsError(result.ret))
        /\ (IsError(result.ret) => result.ret.error.fmt /= "")

\* format_for_context obtained no success record from the aggregator: the
\* call of get_comprehensive_quote raised, or returned an error record.
AggregationFailed ==
    /\ Called("get_comprehensive_quote")
    /\ \/ TheCall("get_comprehensive_quote").status = "raised"
       \/ IsError(TheCall("get_comprehensive_quote").ret)

AggregationSucceeded ==
    /\ Called("get_comprehensive_quote")
    /\ TheCall("get_comprehensive_quote").status = "returned"
    /\ ~IsError(TheCall("get_comprehensive_quote").ret)

\* C6: format_for_context on a ticker whose aggregation fails returns, and
\* does not raise, a text of one line: the failure wording with the literal
\* ticker, and no header, block, number or news.
C6_FailureLine ==
    (op = "format_for_context" /\ AggregationFailed) =>
        /\ result.status = "returned"
        /\ Len(result.ret.text) = 1
        /\ result.ret.text[1].fmt = "Unable to retrieve real-time data for {}: {}"
        /\ result.ret.text[1].targs = <<arg.ticker>>
        /\ result.ret.text[1].nargs = <<>>
        /\ ~Called("get_company_news")

\* The optional lines of the trading-data and key-metrics blocks, each with
\* the field of the quote record it prints.
FieldLines ==
    {[fmt |-> "  Price: ${:.2f}", key |-> "current_price"],
     [fmt |-> "  Change: {} ({}%)", key |-> "change"],
     [fmt |-> "  Day Range: ${:.2f} - ${:.2f}", key |-> "day_low"],
     [fmt |-> "  Volume: {:,}", key |-> "volume"],
     [fmt |-> "  Market Cap: ${:,.0f}", key |-> "market_cap"],
     [fmt |-> "  P/E Ratio: {:.2f}", key |-> "pe_ratio"],
     [fmt |-> "  52-Week Range: ${} - ${}", key |-> "52_week_low"]}

\* The lines a blank line of the layout comes before.
SectionStarts ==
    {"Company: {}", "CURRENT TRADING DATA:", "KEY METRICS:", "COMPANY OVERVIEW:", "RECENT NEWS:"}

HasLine(text, fmt) == \E i \in DOMAIN text : text[i].fmt = fmt

\* C7: in the text format_for_context returns for a success quote, each
\* line of the trading-data and key-metrics blocks is there if and only if
\* its field is present (not None), a zero included; an absent field leaves
\* no placeholder and no blank line.
C7_LinesIffPresent ==
    (op = "format_for_context" /\ result.status = "returned" /\ AggregationSucceeded) =>
        LET quote == TheCall("get_comprehensive_quote").ret
            text == result.ret.text
        IN  /\ \A l \in FieldLines : HasLine(text, l.fmt) <=> QGet(quote, l.key) /= None
            /\ ~HasLine(text, "  Price: N/A")
            /\ \A i \in DOMAIN text :
                 text[i] = Blank => i < Len(text) /\ text[i + 1].fmt \in SectionStarts

\* The numbered headline lines of a text.
HeadlineLines(text) == SelectSeq(text, LAMBDA l : l.fmt = "  {}. {} ({})")

\* C8: get_company_news always returns a list and never raises; the list is
\* empty when the provider is unreachable or the credential is not set,
\* else it holds at most 10 items in the provider's order; and
\* format_for_context prints at most the first 5 of them, numbered.
C8_NewsAlwaysList ==
    /\ op = "get_company_news" =>
         /\ result.status = "returned"
         /\ Len(result.ret.list) <= NewsLimit
         /\ \A i \in DOMAIN result.ret.list : result.ret.list[i].headline = Some(i)
         /\ (RequestFailed \/ "FINHUB_API_KEY" \notin env => result.ret.list = <<>>)
    /\ (op = "format_for_context" /\ result.status = "returned" /\ AggregationSucceeded) =>
         LET lines == HeadlineLines(result.ret.text) IN
         /\ Len(lines) <= ContextNewsLimit
         /\ \A i \in DOMAIN lines : lines[i].nargs = <<Some(i), Some(i)>>
         /\ Called("get_company_news") =>
              Len(lines) = Len(Prefix(TheCall("get_company_news").ret.list, ContextNewsLimit))

\* The text process_document extracts from a file, empty for a suffix it
\* does not support.
ExtractedText(file) ==
    IF Lower(file.path.suffix) = ".pdf" THEN extract_text_from_pdf(file.read)
    ELSE IF Lower(file.path.suffix) = ".txt" THEN read_text_file(file.read)
    ELSE <<>>

\* The documents of one file are numbered 0..total_chunks-1 in order, and
\* total_chunks is on each of them the number of documents.
WellNumbered(docs) ==
    \A i \in DOMAIN docs :
        /\ docs[i].metadata.chunk_id = i - 1
        /\ docs[i].metadata.total_chunks = Len(docs)

\* C9: process_document returns documents whose chunk_id are 0, 1, ...,
\* total_chunks-1 in output order, total_chunks being on every document the
\* number of documents returned; it returns none when extraction yielded no
\* text.
C9_ChunkIdsContiguous ==
    /\ op = "process_document" =>
         /\ result.status = "returned"
         /\ WellNumbered(result.ret.list)
         /\ (ExtractedText(arg.file) = <<>> => result.ret.list = <<>>)
    /\ op = "process_directory" =>
         \A i \in DOMAIN result.calls :
            result.calls[i].status = "returned" => WellNumbered(result.calls[i].ret.list)

\* C9 witness: a file processed into two or more documents.
C9_Witness ==
    /\ op = "process_document"
    /\ Len(result.ret.list) >= 2
    /\ result.ret.list[2].metadata.chunk_id = 1

\* The suffix test of process_directory.
Supported(f) == f.is_file /\ Lower(f.path.suffix) \in {".pdf", ".txt"}

\* The documents returned by the calls from the i-th on, concatenated.
RECURSIVE Concat(_, _)
Concat(calls, i) ==
    IF i > Len(calls) THEN <<>> ELSE calls[i].ret.list \o Concat(calls, i + 1)

\* C10: process_directory completes the walk: it processes each file with a
\* supported suffix, in traversal order, and returns their documents
\* concatenated in that order; a file that is unsupported or whose
\* extraction fails gives no document, and the documents of a file are
\* those it gives when processed alone.
C10_DirectoryWalkCompletes ==
    op = "process_directory" =>
        LET files == SelectSeq(arg.listing, Supported)
            calls == CallsTo(result.calls, "process_document")
            docs == result.ret.list
        IN  /\ result.status = "returned"
            /\ Len(calls) = Len(files)
            /\ \A i \in DOMAIN calls :
                 /\ calls[i].args.file = files[i]
                 /\ calls[i].status = "returned"
                 /\ calls[i].ret \in {r.ret : r \in process_document_runs(files[i])}
                 /\ SelectSeq(docs, LAMBDA d : d.metadata.file_path = files[i].path)
                      = calls[i].ret.list
            /\ docs = Concat(calls, 1)
            /\ \A i \in DOMAIN arg.listing :
                 ~Supported(arg.listing[i]) \/ ExtractedText(arg.listing[i]) = <<>>
                    => \A k \in DOMAIN docs : docs[k].metadata.file_path /= arg.listing[i].path

\* C10 witness: a file whose extraction fails, then a file that is
\* processed into documents.
C10_Witness ==
    /\ op = "process_directory"
    /\ Len(arg.listing) = 2
    /\ Supported(arg.listing[1])
    /\ arg.listing[1].read.exc /= ""
    /\ Len(result.ret.list) = 2
    /\ result.ret.list[1].metadata.file_path = arg.listing[2].path

\* The names of the four indices.
IndexNames == {Indices[i].name : i \in DOMAIN Indices}

\* C11: get_market_overview always returns a mapping whose keys are among
\* the four index names: exactly the indices whose get_stock_quote
\* succeeded, each with that quote's price; every index is fetched, in
\* order, whatever happened to the ones before it.
C11_OverviewIsSucceededSubset ==
    op = "get_market_overview" =>
        LET calls == CallsTo(result.calls, "get_stock_quote") IN
        /\ result.status = "returned"
        /\ DOMAIN result.ret \subseteq IndexNames
        /\ Len(calls) = Len(Indices)
        /\ \A i \in DOMAIN Indices :
             /\ calls[i].args.ticker = Indices[i].symbol
             /\ Indices[i].name \in DOMAIN result.ret
                  <=> (calls[i].status = "returned" /\ ~IsError(calls[i].ret))
             /\ Indices[i].name \in DOMAIN result.ret
                  => result.ret[Indices[i].name].price = calls[i].ret.current_price

\* C11 witness: the first index fails and the three after it are returned.
C11_Witness ==
    /\ op = "get_market_overview"
    /\ result.status = "returned"
    /\ DOMAIN result.ret = IndexNames \ {"S&P 500"}
    /\ IsError(CallsTo(result.calls, "get_stock_quote")[1].ret)

\* The log entries that are outbound requests.
RequestFns == {"stock.info", "stock.history", "session.get"}

\* The adapters, as methods called on their own.
AdapterOps ==
    {"get_stock_quote", "get_finnhub_quote", "get_fmp_quote", "get_crypto_price",
     "get_company_news", "get_company_info"}

\* The quote adapters get_comprehensive_quote calls.
ChainAdapters == {"get_stock_quote", "get_finnhub_quote", "get_fmp_quote"}

\* The requests in a log.
RequestsIn(log) == SelectSeq(log, LAMBDA c : c.fn \in RequestFns)

\* The requests made by the call logged at position i: the requests logged
\* just before it.
RequestsOf(log, i) ==
    LET starts == {j \in 1..i : \A k \in j..(i - 1) : log[k].fn \in RequestFns} IN
    SubSeq(log, CHOOSE j \in starts : \A k \in starts : j <= k, i - 1)

\* No request is made after one that failed.
NoneAfterFailure(reqs) == \A j \in DOMAIN reqs : j < Len(reqs) => reqs[j].status = "returned"

\* For every secondary provider whose credential is not set, no call and
\* no request.
UnconfiguredUntouched ==
    /\ "FINHUB_API_KEY" \notin env => ~Called("get_finnhub_quote")
    /\ "FMP_API_KEY" \notin env => ~Called("get_fmp_quote")
    /\ env = {} => \A i \in DOMAIN result.calls : result.calls[i].fn /= "session.get"

\* C12 as stated: each adapter makes at most one outbound request per
\* invocation and never retries a failed one; during one
\* get_comprehensive_quote each provider receives at most one request, and
\* an unconfigured secondary provider none.
C12_AtMostOneRequest ==
    /\ op \in AdapterOps =>
         /\ Len(RequestsIn(result.calls)) <= 1
         /\ NoneAfterFailure(RequestsIn(result.calls))
    /\ op = "get_comprehensive_quote" =>
         /\ \A i \in DOMAIN result.calls :
              result.calls[i].fn \in ChainAdapters =>
                 /\ Len(RequestsOf(result.calls, i)) <= 1
                 /\ Len(CallsTo(result.calls, result.calls[i].fn)) = 1
         /\ UnconfiguredUntouched

\* The requests of one invocation of the adapter fn: no request is made
\* twice, none after a failed one; at most one, or for get_stock_quote at
\* most two, stock.info then stock.history.
RequestsOnce(fn, reqs) ==
    /\ \A j, k \in DOMAIN reqs : reqs[j].fn = reqs[k].fn => j = k
    /\ NoneAfterFailure(reqs)
    /\ IF fn = "get_stock_quote"
       THEN Len(reqs) <= 2 /\ \A j \in DOMAIN reqs :
                reqs[j].fn = (IF j = 1 THEN "stock.info" ELSE "stock.history")
       ELSE Len(reqs) <= 1

\* C12, amended: each adapter makes each of its outbound requests at most
\* once per invocation and never retries a failed one: one request for the
\* HTTP adapters and for get_company_info, and for get_stock_quote two to
\* Yahoo Finance (stock.info, then stock.history if the first answered);
\* during one get_comprehensive_quote each adapter is called at most once,
\* with these requests, and an unconfigured secondary provider receives
\* none.
C12_EachRequestOnce ==
    /\ op \in AdapterOps => RequestsOnce(op, RequestsIn(result.calls))
    /\ op = "get_comprehensive_quote" =>
         /\ \A i \in DOMAIN result.calls :
              result.calls[i].fn \in ChainAdapters =>
                 /\ RequestsOnce(result.calls[i].fn, RequestsOf(result.calls, i))
                 /\ Len(CallsTo(result.calls, result.calls[i].fn)) = 1
         /\ UnconfiguredUntouched

\* C12 witness: get_comprehensive_quote with no credential set, whose
\* primary made both of its requests, the second one failing.
C12_Witness ==
    /\ op = "get_comprehensive_quote"
    /\ env = {}
    /\ PrimaryFailed
    /\ Len(RequestsOf(result.calls, FirstCall("get_stock_quote"))) = 2
    /\ result.calls[2].status = "raised"

\* C13: format_for_context returns a text block without raising for every
\* success record the aggregator returns, whichever optional numeric
\* fields are present (day_low without day_high included) and also when
\* the company-profile fetch returned an error record.
C13_FormatNeverRaises ==
    (op = "format_for_context" /\ ~arg.include_news /\ AggregationSucceeded) =>
        /\ result.status = "returned"
        /\ Len(result.ret.text) > 0

====
